---------------------------- MODULE Spec2Model ----------------------------
(***************************************************************************)
(* Envelope segment processing of the Postfix cleanup service              *)
(* (src/postfix/src/cleanup/cleanup_envelope.c).                           *)
(*                                                                         *)
(* C strings are sequences of one-character strings; the null pointer is   *)
(* NULL, a value no such sequence equals.  The errs and flags bitmasks are  *)
(* sets (of error names, of bit positions).                                *)
(***************************************************************************)
EXTENDS Integers, Sequences, FiniteSets, TLC

(***************************************************************************)
(* Bounds of the model.                                                    *)
(***************************************************************************)
\* Number of input records one message delivers to the cleanup handlers.
MaxRecs == 4

(***************************************************************************)
(* C values.                                                               *)
(***************************************************************************)
\* The null pointer ("== 0" tests on char pointers).
NULL == <<"NULL">>

Whitespace == {" ", "\t"}

Digits == {"0", "1", "2", "3", "4", "5", "6", "7", "8", "9"}

DigitVal(c) ==
    CASE c = "0" -> 0 [] c = "1" -> 1 [] c = "2" -> 2 [] c = "3" -> 3
      [] c = "4" -> 4 [] c = "5" -> 5 [] c = "6" -> 6 [] c = "7" -> 7
      [] c = "8" -> 8 [] c = "9" -> 9

DigitChar(d) ==
    CASE d = 0 -> "0" [] d = 1 -> "1" [] d = 2 -> "2" [] d = 3 -> "3"
      [] d = 4 -> "4" [] d = 5 -> "5" [] d = 6 -> "6" [] d = 7 -> "7"
      [] d = 8 -> "8" [] d = 9 -> "9"

RECURSIVE SkipSpace(_)
SkipSpace(s) ==
    IF s # <<>> /\ Head(s) \in Whitespace THEN SkipSpace(Tail(s)) ELSE s

RECURSIVE AtolDigits(_, _)
AtolDigits(s, acc) ==
    IF s = <<>> \/ Head(s) \notin Digits
    THEN acc
    ELSE AtolDigits(Tail(s), 10 * acc + DigitVal(Head(s)))

\* atol(3): leading white space, an optional sign, then the longest run of
\* digits; a string without digits converts to 0.
atol(s) ==
    LET t == SkipSpace(s)
    IN  IF t # <<>> /\ Head(t) = "-" THEN 0 - AtolDigits(Tail(t), 0)
        ELSE IF t # <<>> /\ Head(t) = "+" THEN AtolDigits(Tail(t), 0)
        ELSE AtolDigits(t, 0)

RECURSIVE UDecimal(_)
UDecimal(n) ==
    IF n < 10 THEN <<DigitChar(n)>>
    ELSE Append(UDecimal(n \div 10), DigitChar(n % 10))

\* printf "%ld".
Decimal(n) == IF n < 0 THEN <<"-">> \o UDecimal(0 - n) ELSE UDecimal(n)

RECURSIVE PadLeft(_, _)
PadLeft(s, w) == IF Len(s) >= w THEN s ELSE PadLeft(<<" ">> \o s, w)

\* Field width of the REC_TYPE_SIZE_FORMAT / REC_TYPE_WARN_FORMAT
\* conversions ("%15ld").
REC_TYPE_FIELD_WIDTH == 15

\* printf "%15ld".
Fmt15ld(n) == PadLeft(Decimal(n), REC_TYPE_FIELD_WIDTH)

\* REC_TYPE_SIZE_FORMAT "%15ld %15ld %15ld".
REC_TYPE_SIZE_FORMAT(a, b, c) ==
    Fmt15ld(a) \o <<" ">> \o Fmt15ld(b) \o <<" ">> \o Fmt15ld(c)

\* REC_TYPE_WARN_FORMAT "%15ld".
REC_TYPE_WARN_FORMAT(t) == Fmt15ld(t)

RECURSIVE BitsOf(_)
\* The set of bit positions set in the non-negative integer n.
BitsOf(n) ==
    IF n = 0 THEN {}
    ELSE (IF n % 2 = 1 THEN {0} ELSE {}) \cup {b + 1 : b \in BitsOf(n \div 2)}

(***************************************************************************)
(* Record types, error bits, flag bits and configuration.                  *)
(***************************************************************************)
REC_TYPE_SIZE == "SIZE"
REC_TYPE_TIME == "TIME"
REC_TYPE_FULL == "FULL"
REC_TYPE_FROM == "FROM"
REC_TYPE_RCPT == "RCPT"
REC_TYPE_DONE == "DONE"
REC_TYPE_WARN == "WARN"
REC_TYPE_VERP == "VERP"
REC_TYPE_ATTR == "ATTR"
REC_TYPE_ORCP == "ORCP"
REC_TYPE_FLGS == "FLGS"
REC_TYPE_MESG == "MESG"
\* A message content record: a type outside the envelope set.
REC_TYPE_NORM == "NORM"

\* The types that may appear in the envelope segment.
REC_TYPE_ENVELOPE ==
    {REC_TYPE_SIZE, REC_TYPE_TIME, REC_TYPE_FULL, REC_TYPE_FROM,
     REC_TYPE_RCPT, REC_TYPE_DONE, REC_TYPE_WARN, REC_TYPE_VERP,
     REC_TYPE_ATTR, REC_TYPE_ORCP, REC_TYPE_FLGS}

CLEANUP_STAT_BAD == "BAD"

\* Bit positions of the flags a FLGS record may add.
CLEANUP_FLAG_MASK_EXTRA == {2, 3}

\* Configuration: the queue file attribute count limit.
var_qattr_count_limit == 2

\* Configuration: a positive delay_warning_time.
DelayWarn == 3

(***************************************************************************)
(* State.                                                                  *)
(***************************************************************************)
VARIABLES
    flags,              \* CLEANUP_STATE.flags: set of bit positions
    errs,               \* CLEANUP_STATE.errs: set of error names
    time,               \* CLEANUP_STATE.time (0: unset)
    warn_time,          \* CLEANUP_STATE.warn_time (0: unset)
    sender,             \* CLEANUP_STATE.sender (NULL or a string)
    fullname,           \* CLEANUP_STATE.fullname (NULL or a string)
    orig_rcpt,          \* CLEANUP_STATE.orig_rcpt (NULL or a string)
    attr,               \* CLEANUP_STATE.attr: function name -> value
    action,             \* CLEANUP_STATE.action: the installed record handler
    sink,               \* the queue file: sequence of records written
    warnings,           \* what msg_warn logged, in order
    calls,              \* the address rewriter invocations, in order
    var_delay_warn_time,\* configuration: delay_warning_time
    rec,                \* the input record of the latest handler call
    entry,              \* the state on entry to that call's per-record handler
    attr_stream,        \* payloads of the ATTR records the envelope handler got
    nrec,               \* number of input records received
    inputs,             \* the input records in arrival order, where recorded
    client_start,       \* the TLS client-start exchange: sender, stream, receiver
    server_init,        \* the TLS server-init receiver: stream, heap, *ptr
    sasl,               \* the SMTP server's SASL session
    flush               \* the fast-flush client: its calls and their streams

vars == <<flags, errs, time, warn_time, sender, fullname, orig_rcpt, attr,
          action, sink, warnings, calls, var_delay_warn_time, rec, entry,
          attr_stream, nrec, inputs, client_start, server_init, sasl, flush>>

\* The variables of the envelope processor, and of the other modules.
envelope_vars ==
    <<flags, errs, time, warn_time, sender, fullname, orig_rcpt, attr,
      action, sink, warnings, calls, var_delay_warn_time, rec, entry,
      attr_stream, nrec, inputs>>

others == <<client_start, server_init, sasl, flush>>

\* The value of such a variable while its module is not in use.
NotStarted == [pc |-> "none"]

\* The message state as one value: what the handlers read and return.
Cur ==
    [flags |-> flags, errs |-> errs, time |-> time, warn_time |-> warn_time,
     sender |-> sender, fullname |-> fullname, orig_rcpt |-> orig_rcpt,
     attr |-> attr, action |-> action, sink |-> sink,
     warnings |-> warnings, calls |-> calls]

Install(w) ==
    /\ flags' = w.flags
    /\ errs' = w.errs
    /\ time' = w.time
    /\ warn_time' = w.warn_time
    /\ sender' = w.sender
    /\ fullname' = w.fullname
    /\ orig_rcpt' = w.orig_rcpt
    /\ attr' = w.attr
    /\ action' = w.action
    /\ sink' = w.sink
    /\ warnings' = w.warnings
    /\ calls' = w.calls

(***************************************************************************)
(* Collaborators of the envelope processor.                                *)
(***************************************************************************)
\* cleanup_out: append one record to the queue file.
cleanup_out(w, type, buf) ==
    [w EXCEPT !.sink = Append(@, [type |-> type, data |-> buf,
                                  by |-> "cleanup_out"])]

\* cleanup_out_format: append one record whose payload was formatted.
cleanup_out_format(w, type, text) ==
    [w EXCEPT !.sink = Append(@, [type |-> type, data |-> text,
                                  by |-> "cleanup_out_format"])]

msg_warn(w, text) == [w EXCEPT !.warnings = Append(@, text)]

\* SetBad with ^= where the code has |=.
SetBad_toggle(w) ==
    [w EXCEPT !.errs = IF CLEANUP_STAT_BAD \in @
                       THEN @ \ {CLEANUP_STAT_BAD}
                       ELSE @ \cup {CLEANUP_STAT_BAD}]

\* state->errs |= CLEANUP_STAT_BAD
SetBad(w) == [w EXCEPT !.errs = @ \cup {CLEANUP_STAT_BAD}]

Contains(s, c) == \E i \in 1..Len(s) : s[i] = c

\* Address canonicalization: an address without domain gets the local
\* domain appended; the null address stays empty.
canon_addr(addr) ==
    IF addr = <<>> \/ Contains(addr, "@") THEN addr
    ELSE addr \o <<"@", "m">>

\* cleanup_addr_sender: canonicalize, write the FROM record, set the sender.
cleanup_addr_sender(w, buf) ==
    LET clean == canon_addr(buf)
        logged == [w EXCEPT !.calls = Append(@,
                      [fn |-> "cleanup_addr_sender", arg |-> buf,
                       sender |-> w.sender, orig_rcpt |-> w.orig_rcpt])]
        out == [logged EXCEPT !.sink = Append(@,
                      [type |-> REC_TYPE_FROM, data |-> clean,
                       by |-> "cleanup_addr_sender"])]
    IN  [out EXCEPT !.sender = clean]

\* Virtual expansion: the list address fans out to its members, in order;
\* any other address stands for itself.
ListAddr == <<"l", "@", "m">>

ListMembers == << <<"b", "@", "m">>, <<"c", "@", "m">> >>

virtual_expand(addr) == IF addr = ListAddr THEN ListMembers ELSE <<addr>>

\* One (ORCP, RCPT) pair per expanded recipient, in expansion order.
RECURSIVE rcpt_pairs(_, _)
rcpt_pairs(label, rcpts) ==
    IF rcpts = <<>> THEN <<>>
    ELSE <<[type |-> REC_TYPE_ORCP, data |-> label,
            by |-> "cleanup_addr_recipient"],
           [type |-> REC_TYPE_RCPT, data |-> Head(rcpts),
            by |-> "cleanup_addr_recipient"]>>
         \o rcpt_pairs(label, Tail(rcpts))

\* cleanup_addr_recipient: canonicalize, expand, and write the original
\* recipient (state->orig_rcpt) with each resulting recipient.
cleanup_addr_recipient(w, buf) ==
    LET clean == canon_addr(buf)
        logged == [w EXCEPT !.calls = Append(@,
                      [fn |-> "cleanup_addr_recipient", arg |-> buf,
                       sender |-> w.sender, orig_rcpt |-> w.orig_rcpt])]
    IN  [logged EXCEPT !.sink =
             @ \o rcpt_pairs(w.orig_rcpt, virtual_expand(clean))]

\* verp_delims_verify: TRUE when the payload is two legal delimiters.
VerpFilter == {"+", "=", "-"}

verp_delims_ok(buf) ==
    Len(buf) = 2 /\ buf[1] \in VerpFilter /\ buf[2] \in VerpFilter

\* split_nameval: the first "=" splits name and value; a payload without
\* "=" is malformed.
EqPos(buf) ==
    IF Contains(buf, "=")
    THEN CHOOSE i \in 1..Len(buf) :
             buf[i] = "=" /\ \A j \in 1..(i - 1) : buf[j] # "="
    ELSE 0

split_ok(buf) == EqPos(buf) # 0

attr_name(buf) == SubSeq(buf, 1, EqPos(buf) - 1)

attr_value(buf) == SubSeq(buf, EqPos(buf) + 1, Len(buf))

\* nvtable_update: insert the entry, or replace the value of an existing name.
nvtable_update(table, name, value) ==
    [n \in DOMAIN table \cup {name} |-> IF n = name THEN value ELSE table[n]]

\* attr->used
used(table) == Cardinality(DOMAIN table)

(***************************************************************************)
(* cleanup_envelope_process, one operator per branch of the handler.       *)
(***************************************************************************)
\* envelope_mesg with && where the code has || in the sanity check.
envelope_mesg_and(w) ==
    IF w.sender = NULL /\ w.time = 0
    THEN SetBad(msg_warn(w, "missing sender or time envelope record"))
    ELSE LET w1 == IF w.warn_time = 0 /\ var_delay_warn_time > 0
                   THEN [w EXCEPT !.warn_time = w.time + var_delay_warn_time]
                   ELSE w
             w2 == IF w1.warn_time # 0
                   THEN cleanup_out_format(w1, REC_TYPE_WARN,
                                           REC_TYPE_WARN_FORMAT(w1.warn_time))
                   ELSE w1
         IN  [w2 EXCEPT !.action = "cleanup_message"]

\* envelope_mesg without the test that no warn time was received.
envelope_mesg_always_synth(w) ==
    IF w.sender = NULL \/ w.time = 0
    THEN SetBad(msg_warn(w, "missing sender or time envelope record"))
    ELSE LET w1 == IF var_delay_warn_time > 0
                   THEN [w EXCEPT !.warn_time = w.time + var_delay_warn_time]
                   ELSE w
             w2 == IF w1.warn_time # 0
                   THEN cleanup_out_format(w1, REC_TYPE_WARN,
                                           REC_TYPE_WARN_FORMAT(w1.warn_time))
                   ELSE w1
         IN  [w2 EXCEPT !.action = "cleanup_message"]

\* type == REC_TYPE_MESG: the envelope to content boundary.
envelope_mesg(w) ==
    IF w.sender = NULL \/ w.time = 0
    THEN SetBad(msg_warn(w, "missing sender or time envelope record"))
    ELSE LET w1 == IF w.warn_time = 0 /\ var_delay_warn_time > 0
                   THEN [w EXCEPT !.warn_time = w.time + var_delay_warn_time]
                   ELSE w
             w2 == IF w1.warn_time # 0
                   THEN cleanup_out_format(w1, REC_TYPE_WARN,
                                           REC_TYPE_WARN_FORMAT(w1.warn_time))
                   ELSE w1
         IN  [w2 EXCEPT !.action = "cleanup_message"]

\* extra_flags & ~CLEANUP_FLAG_MASK_EXTRA (a negative value has its high
\* bits set).
BadExtraFlags(n) == n < 0 \/ BitsOf(n) \ CLEANUP_FLAG_MASK_EXTRA # {}

\* type == REC_TYPE_FLGS
envelope_flgs(w, buf) ==
    LET extra_flags == atol(buf)
    IN  IF BadExtraFlags(extra_flags)
        THEN msg_warn(w, "bad extra flags")
        ELSE [w EXCEPT !.flags = @ \cup BitsOf(extra_flags)]

\* envelope_unexpected that warns and sets no error bit.
envelope_unexpected_warn_only(w) ==
    msg_warn(w, "unexpected record type in envelope")

\* strchr(REC_TYPE_ENVELOPE, type) == 0
envelope_unexpected(w) ==
    SetBad(msg_warn(w, "unexpected record type in envelope"))

\* envelope_orphan_orcp that warns and keeps the label.
envelope_orphan_orcp_kept(w, type) ==
    IF type # REC_TYPE_RCPT /\ w.orig_rcpt # NULL /\ type # REC_TYPE_DONE
    THEN msg_warn(w, "out-of-order original recipient record")
    ELSE w

\* type != REC_TYPE_RCPT: drop a pending original recipient.
envelope_orphan_orcp(w, type) ==
    IF type # REC_TYPE_RCPT /\ w.orig_rcpt # NULL
    THEN LET w1 == IF type # REC_TYPE_DONE
                   THEN msg_warn(w, "out-of-order original recipient record")
                   ELSE w
         IN  [w1 EXCEPT !.orig_rcpt = NULL]
    ELSE w

\* envelope_time that stores the time without writing the record.
envelope_time_not_forwarded(w, buf) == [w EXCEPT !.time = atol(buf)]

\* type == REC_TYPE_TIME
envelope_time(w, buf) ==
    cleanup_out([w EXCEPT !.time = atol(buf)], REC_TYPE_TIME, buf)

\* type == REC_TYPE_FULL
envelope_full(w, buf) == [w EXCEPT !.fullname = buf]

\* envelope_from without the duplicate-sender test.
envelope_from_unguarded(w, buf) == cleanup_addr_sender(w, buf)

\* type == REC_TYPE_FROM
envelope_from(w, buf) ==
    IF w.sender # NULL
    THEN SetBad(msg_warn(w, "too many envelope sender records"))
    ELSE cleanup_addr_sender(w, buf)

\* envelope_rcpt without the sender test.
envelope_rcpt_unguarded(w, buf) ==
    LET w1 == IF w.orig_rcpt = NULL
              THEN [w EXCEPT !.orig_rcpt = buf]
              ELSE w
        w2 == cleanup_addr_recipient(w1, buf)
    IN  [w2 EXCEPT !.orig_rcpt = NULL]

\* envelope_rcpt taking the original recipient from the RCPT payload always.
envelope_rcpt_own_payload(w, buf) ==
    IF w.sender = NULL
    THEN SetBad(msg_warn(w, "envelope recipient precedes sender"))
    ELSE LET w1 == [w EXCEPT !.orig_rcpt = buf]
             w2 == cleanup_addr_recipient(w1, buf)
         IN  [w2 EXCEPT !.orig_rcpt = NULL]

\* type == REC_TYPE_RCPT
envelope_rcpt(w, buf) ==
    IF w.sender = NULL
    THEN SetBad(msg_warn(w, "envelope recipient precedes sender"))
    ELSE LET w1 == IF w.orig_rcpt = NULL
                   THEN [w EXCEPT !.orig_rcpt = buf]
                   ELSE w
             w2 == cleanup_addr_recipient(w1, buf)
         IN  [w2 EXCEPT !.orig_rcpt = NULL]

\* type == REC_TYPE_WARN
envelope_warn(w, buf) ==
    LET w1 == [w EXCEPT !.warn_time = atol(buf)]
    IN  IF w1.warn_time < 0 THEN SetBad(w1) ELSE w1

\* envelope_verp without the test for an empty sender.
envelope_verp_null_only(w, buf) ==
    IF w.sender = NULL
    THEN SetBad(w)
    ELSE IF verp_delims_ok(buf)
         THEN cleanup_out(w, REC_TYPE_VERP, buf)
         ELSE SetBad(msg_warn(w, "bad VERP delimiters"))

\* type == REC_TYPE_VERP
envelope_verp(w, buf) ==
    IF w.sender = NULL \/ w.sender = <<>>
    THEN SetBad(w)
    ELSE IF verp_delims_ok(buf)
         THEN cleanup_out(w, REC_TYPE_VERP, buf)
         ELSE SetBad(msg_warn(w, "bad VERP delimiters"))

\* envelope_attr that validates the payload before it writes the record.
envelope_attr_validate_first(w, buf) ==
    IF used(w.attr) >= var_qattr_count_limit
    THEN SetBad(msg_warn(w,
                "queue file attribute count exceeds safety limit"))
    ELSE IF ~split_ok(buf)
         THEN SetBad(msg_warn(w, "malformed attribute"))
         ELSE [cleanup_out(w, REC_TYPE_ATTR, buf) EXCEPT !.attr =
                   nvtable_update(@, attr_name(buf), attr_value(buf))]

\* envelope_attr that stores the attribute without writing the record.
envelope_attr_not_forwarded(w, buf) ==
    IF used(w.attr) >= var_qattr_count_limit
    THEN SetBad(msg_warn(w,
                "queue file attribute count exceeds safety limit"))
    ELSE IF split_ok(buf)
         THEN [w EXCEPT !.attr =
                   nvtable_update(@, attr_name(buf), attr_value(buf))]
         ELSE SetBad(msg_warn(w, "malformed attribute"))

\* envelope_attr comparing with > where the code has >=.
envelope_attr_off_by_one(w, buf) ==
    IF used(w.attr) > var_qattr_count_limit
    THEN SetBad(msg_warn(w,
                "queue file attribute count exceeds safety limit"))
    ELSE LET w1 == cleanup_out(w, REC_TYPE_ATTR, buf)
         IN  IF ~split_ok(buf)
             THEN SetBad(msg_warn(w1, "malformed attribute"))
             ELSE [w1 EXCEPT !.attr =
                       nvtable_update(@, attr_name(buf), attr_value(buf))]

\* envelope_attr that forwards the record and leaves the mapping alone.
envelope_attr_no_update(w, buf) ==
    IF used(w.attr) >= var_qattr_count_limit
    THEN SetBad(msg_warn(w,
                "queue file attribute count exceeds safety limit"))
    ELSE LET w1 == cleanup_out(w, REC_TYPE_ATTR, buf)
         IN  IF ~split_ok(buf)
             THEN SetBad(msg_warn(w1, "malformed attribute"))
             ELSE w1

\* type == REC_TYPE_ATTR
envelope_attr(w, buf) ==
    IF used(w.attr) >= var_qattr_count_limit
    THEN SetBad(msg_warn(w,
                "queue file attribute count exceeds safety limit"))
    ELSE LET w1 == cleanup_out(w, REC_TYPE_ATTR, buf)
         IN  IF ~split_ok(buf)
             THEN SetBad(msg_warn(w1, "malformed attribute"))
             ELSE [w1 EXCEPT !.attr =
                       nvtable_update(@, attr_name(buf), attr_value(buf))]

\* type == REC_TYPE_ORCP
envelope_orcp(w, buf) == [w EXCEPT !.orig_rcpt = buf]

\* The per-type dispatch that follows the orphan cleanup.
envelope_dispatch(w, type, buf) ==
    CASE type = REC_TYPE_TIME -> envelope_time(w, buf)
      [] type = REC_TYPE_FULL -> envelope_full(w, buf)
      [] type = REC_TYPE_FROM -> envelope_from(w, buf)
      [] type = REC_TYPE_RCPT -> envelope_rcpt(w, buf)
      [] type = REC_TYPE_DONE -> w
      [] type = REC_TYPE_WARN -> envelope_warn(w, buf)
      [] type = REC_TYPE_VERP -> envelope_verp(w, buf)
      [] type = REC_TYPE_ATTR -> envelope_attr(w, buf)
      [] type = REC_TYPE_ORCP -> envelope_orcp(w, buf)
      [] OTHER -> cleanup_out(w, type, buf)

\* cleanup_envelope_process - process one envelope record
envelope_process(w, type, buf) ==
    IF type = REC_TYPE_MESG THEN envelope_mesg(w)
    ELSE IF type = REC_TYPE_FLGS THEN envelope_flgs(w, buf)
    ELSE IF type \notin REC_TYPE_ENVELOPE THEN envelope_unexpected(w)
    ELSE envelope_dispatch(envelope_orphan_orcp(w, type), type, buf)

\* envelope_begin that installs the handler and writes no size record.
envelope_begin_no_size(w) == [w EXCEPT !.action = "cleanup_envelope_process"]

\* cleanup_envelope - initialize message envelope: write the size record,
\* install the per-record handler, hand the record to it.  The result is
\* the state on entry to the handler.
envelope_begin(w) ==
    LET w1 == cleanup_out_format(w, REC_TYPE_SIZE,
                                 REC_TYPE_SIZE_FORMAT(0, 0, 0))
    IN  [w1 EXCEPT !.action = "cleanup_envelope_process"]

(***************************************************************************)
(* Input records.                                                          *)
(***************************************************************************)
Rec(type, buf) == [type |-> type, buf |-> buf]

\* The records of the envelope protocol the front end may send, in any
\* order: time (one malformed), full name, sender, recipient, delivered
\* recipient, warning time (one negative), original recipient, extra flags
\* (one with a bit outside the mask), the boundary, a size record, VERP
\* delimiters (one illegal), an attribute, and a content record.
Records ==
    { Rec(REC_TYPE_TIME, <<"2">>), Rec(REC_TYPE_TIME, <<"x">>),
      Rec(REC_TYPE_FULL, <<"n">>),
      Rec(REC_TYPE_FROM, <<"a">>), Rec(REC_TYPE_FROM, <<>>),
      Rec(REC_TYPE_RCPT, <<"b">>),
      Rec(REC_TYPE_DONE, <<"b">>),
      Rec(REC_TYPE_WARN, <<"9">>), Rec(REC_TYPE_WARN, <<"-", "1">>),
      Rec(REC_TYPE_ORCP, <<"X">>), Rec(REC_TYPE_ORCP, <<"Y">>),
      Rec(REC_TYPE_FLGS, <<"4">>), Rec(REC_TYPE_FLGS, <<"5">>),
      Rec(REC_TYPE_MESG, <<>>),
      Rec(REC_TYPE_SIZE, <<"7">>),
      Rec(REC_TYPE_VERP, <<"+", "=">>), Rec(REC_TYPE_VERP, <<"+", " ">>),
      Rec(REC_TYPE_ATTR, <<"a", "=", "1">>),
      Rec(REC_TYPE_NORM, <<"t">>) }

\* The records of attribute and VERP streams: attributes (a repeated name,
\* a malformed one), VERP delimiters (one illegal), senders (one empty),
\* and what the boundary needs.
AttrVerpRecords ==
    { Rec(REC_TYPE_ATTR, <<"a", "=", "1">>),
      Rec(REC_TYPE_ATTR, <<"a", "=", "2">>),
      Rec(REC_TYPE_ATTR, <<"b", "=", "3">>),
      Rec(REC_TYPE_ATTR, <<"d", "=", "4">>),
      Rec(REC_TYPE_ATTR, <<"c">>),
      Rec(REC_TYPE_VERP, <<"+", "=">>), Rec(REC_TYPE_VERP, <<"+", " ">>),
      Rec(REC_TYPE_FROM, <<"a">>), Rec(REC_TYPE_FROM, <<>>),
      Rec(REC_TYPE_TIME, <<"2">>),
      Rec(REC_TYPE_WARN, <<"9">>),
      Rec(REC_TYPE_MESG, <<>>) }

\* Records delivered once the content handler is installed.
ContentRecords ==
    { Rec(REC_TYPE_NORM, <<"t">>), Rec(REC_TYPE_RCPT, <<"b">>) }

NoRec == Rec("NONE", <<>>)

(***************************************************************************)
(* The state machine: the caller hands each record to state->action.       *)
(***************************************************************************)
InitState ==
    [flags |-> {}, errs |-> {}, time |-> 0, warn_time |-> 0,
     sender |-> NULL, fullname |-> NULL, orig_rcpt |-> NULL,
     attr |-> <<>>, action |-> "cleanup_envelope", sink |-> <<>>,
     warnings |-> <<>>, calls |-> <<>>]

\* The state cleanup_state_alloc returns, with delay_warning_time one of D.
InitWith(D) ==
    /\ flags = {}
    /\ errs = {}
    /\ time = 0
    /\ warn_time = 0
    /\ sender = NULL
    /\ fullname = NULL
    /\ orig_rcpt = NULL
    /\ attr = <<>>
    /\ action = "cleanup_envelope"
    /\ sink = <<>>
    /\ warnings = <<>>
    /\ calls = <<>>
    /\ var_delay_warn_time \in D
    /\ rec = NoRec
    /\ entry = InitState
    /\ attr_stream = <<>>
    /\ nrec = 0
    /\ inputs = <<>>

\* No other module is in use.
NoOthers ==
    /\ client_start = NotStarted
    /\ server_init = NotStarted
    /\ sasl = NotStarted
    /\ flush = NotStarted

Init == InitWith({DelayWarn}) /\ NoOthers

InitAttrVerp == InitWith({0, DelayWarn}) /\ NoOthers

\* The ATTR payloads the envelope handler has been given, r included.
AttrSeen(r) ==
    IF r.type = REC_TYPE_ATTR THEN Append(attr_stream, r.buf) ELSE attr_stream

\* The first record of a message: state->action is cleanup_envelope.
cleanup_envelope(r) ==
    /\ action = "cleanup_envelope"
    /\ LET w0 == envelope_begin(Cur)
       IN  /\ entry' = w0
           /\ Install(envelope_process(w0, r.type, r.buf))
    /\ rec' = r
    /\ attr_stream' = AttrSeen(r)
    /\ nrec' = nrec + 1
    /\ UNCHANGED var_delay_warn_time

\* A later envelope record: state->action is cleanup_envelope_process.
cleanup_envelope_process(r) ==
    /\ action = "cleanup_envelope_process"
    /\ entry' = Cur
    /\ Install(envelope_process(Cur, r.type, r.buf))
    /\ rec' = r
    /\ attr_stream' = AttrSeen(r)
    /\ nrec' = nrec + 1
    /\ UNCHANGED var_delay_warn_time

\* A record after the boundary: state->action is cleanup_message, which is
\* outside the envelope processor and leaves the envelope state alone.
cleanup_message(r) ==
    /\ action = "cleanup_message"
    /\ entry' = Cur
    /\ rec' = r
    /\ nrec' = nrec + 1
    /\ UNCHANGED <<flags, errs, time, warn_time, sender, fullname, orig_rcpt,
                   attr, action, sink, warnings, calls, var_delay_warn_time,
                   attr_stream>>

\* The caller stops after n records; the arrival order is not recorded.
Upto(n) == nrec < n /\ UNCHANGED inputs /\ UNCHANGED others

Next ==
    \/ \E r \in Records : Upto(MaxRecs) /\ cleanup_envelope(r)
    \/ \E r \in Records : Upto(MaxRecs) /\ cleanup_envelope_process(r)
    \/ \E r \in ContentRecords : Upto(MaxRecs) /\ cleanup_message(r)

Spec == Init /\ [][Next]_vars

NextAttrVerp ==
    \/ \E r \in AttrVerpRecords : Upto(MaxRecs) /\ cleanup_envelope(r)
    \/ \E r \in AttrVerpRecords :
           Upto(MaxRecs) /\ cleanup_envelope_process(r)
    \/ \E r \in ContentRecords : Upto(MaxRecs) /\ cleanup_message(r)

\* The same machine fed attribute and VERP streams, with delay_warning_time
\* zero or positive.
SpecAttrVerp == InitAttrVerp /\ [][NextAttrVerp]_vars

(***************************************************************************)
(* Properties.                                                             *)
(***************************************************************************)
\* The latest record was handled by cleanup_envelope_process (directly, or
\* through cleanup_envelope for the first record).
ByEnvelope == nrec > 0 /\ entry.action = "cleanup_envelope_process"

\* This step hands one record to cleanup_envelope_process.
EnvelopeStep ==
    nrec' = nrec + 1 /\ entry'.action = "cleanup_envelope_process"

HasBad(e) == CLEANUP_STAT_BAD \in e

\* A record written by cleanup_out_format with type SIZE.
SynthSize(o) == o.type = REC_TYPE_SIZE /\ o.by = "cleanup_out_format"

\* Three fields of 15 columns, blank separated, each reading as zero.
ThreeZeroCounters(data) ==
    /\ Len(data) = 47
    /\ data[16] = " " /\ data[32] = " "
    /\ atol(SubSeq(data, 1, 15)) = 0 /\ data[15] = "0"
    /\ atol(SubSeq(data, 17, 31)) = 0 /\ data[31] = "0"
    /\ atol(SubSeq(data, 33, 47)) = 0 /\ data[47] = "0"

\* C1: once the first record went through cleanup_envelope, the first
\* record of the sink is the size record with three zero counters; it was
\* the only sink content when the handler was entered for the first input
\* record; and no other record of the sink is a synthesized size record.
C1_SizeSlotFirst ==
    /\ nrec = 0 => sink = <<>>
    /\ nrec > 0 =>
          /\ Len(sink) >= 1
          /\ SynthSize(sink[1])
          /\ ThreeZeroCounters(sink[1].data)
          /\ \A i \in 2..Len(sink) : ~SynthSize(sink[i])
          /\ Len(entry.sink) >= 1 /\ entry.sink[1] = sink[1]
    /\ nrec = 1 => entry.sink = <<sink[1]>>

\* An input SIZE record was passed through after two other outputs: the
\* sink holds it, and still one synthesized size record.
C1_Witness ==
    /\ ByEnvelope /\ nrec >= 3
    /\ rec.type = REC_TYPE_SIZE
    /\ Len(sink) >= 4
    /\ sink[Len(sink)].type = REC_TYPE_SIZE

\* C2: a RCPT record handled while the sender is unset sets BAD, does not
\* invoke the recipient rewriter, writes nothing to the sink and leaves the
\* sender unset; and every invocation of the recipient rewriter found the
\* sender set.
C2_NoRcptBeforeSender ==
    /\ (ByEnvelope /\ rec.type = REC_TYPE_RCPT /\ entry.sender = NULL) =>
          /\ HasBad(errs)
          /\ calls = entry.calls
          /\ sink = entry.sink
          /\ sender = NULL
    /\ \A i \in 1..Len(calls) :
          calls[i].fn = "cleanup_addr_recipient" => calls[i].sender # NULL

\* TIME then RCPT without sender: the sink holds the size record and TIME.
C2_Witness ==
    /\ ByEnvelope /\ rec.type = REC_TYPE_RCPT /\ entry.sender = NULL
    /\ Len(sink) = 2 /\ sink[2].type = REC_TYPE_TIME
    /\ HasBad(errs) /\ ~HasBad(entry.errs)

SenderCalls == {i \in 1..Len(calls) : calls[i].fn = "cleanup_addr_sender"}

\* C3: the sender rewriter is invoked at most once; a FROM record handled
\* when the sender is set marks BAD, leaves the sender unchanged and writes
\* nothing to the sink.
C3_AtMostOneFrom ==
    /\ Cardinality(SenderCalls) <= 1
    /\ (ByEnvelope /\ rec.type = REC_TYPE_FROM /\ entry.sender # NULL) =>
          /\ HasBad(errs)
          /\ sender = entry.sender
          /\ sink = entry.sink
          /\ calls = entry.calls

\* A second FROM with a different address arrived after the first was
\* accepted.
C3_Witness ==
    /\ ByEnvelope /\ rec.type = REC_TYPE_FROM /\ entry.sender # NULL
    /\ canon_addr(rec.buf) # entry.sender
    /\ Cardinality(SenderCalls) = 1

\* C4: the attribute mapping never holds more than var_qattr_count_limit
\* entries; an ATTR record handled when it holds that many sets BAD and
\* leaves the mapping unchanged.
C4_AttrCountLimit ==
    /\ used(attr) <= var_qattr_count_limit
    /\ (ByEnvelope /\ rec.type = REC_TYPE_ATTR
          /\ used(entry.attr) >= var_qattr_count_limit) =>
          /\ HasBad(errs)
          /\ attr = entry.attr

\* An ATTR record with a new name arrived with the mapping at the limit.
C4_Witness ==
    /\ ByEnvelope /\ rec.type = REC_TYPE_ATTR
    /\ used(entry.attr) = var_qattr_count_limit
    /\ split_ok(rec.buf) /\ attr_name(rec.buf) \notin DOMAIN entry.attr
    /\ ~HasBad(entry.errs)

\* The (name, value) pairs of a table; of the first k payloads of a stream.
PairsOf(table) == {<<n, table[n]>> : n \in DOMAIN table}

FirstPairs(stream, k) ==
    {<<attr_name(stream[i]), attr_value(stream[i])>> : i \in 1..k}

\* What C5 says of the ATTR payloads received: up to the limit, every
\* well-formed one is in the mapping with its value; beyond the limit, the
\* mapping holds exactly the first var_qattr_count_limit of them and BAD is
\* set.
AttrStreamStored(stream) ==
    /\ Len(stream) <= var_qattr_count_limit =>
          \A i \in 1..Len(stream) :
              split_ok(stream[i]) =>
                  /\ attr_name(stream[i]) \in DOMAIN attr
                  /\ attr[attr_name(stream[i])] = attr_value(stream[i])
    /\ Len(stream) > var_qattr_count_limit =>
          /\ PairsOf(attr) = FirstPairs(stream, var_qattr_count_limit)
          /\ HasBad(errs)

WellFormedDistinct(stream) ==
    /\ \A i \in 1..Len(stream) : split_ok(stream[i])
    /\ \A i, j \in 1..Len(stream) :
          i # j => attr_name(stream[i]) # attr_name(stream[j])

\* C5 as claimed: for every stream of ATTR records, duplicate names
\* included, up to the limit every accepted ATTR is in the mapping with its
\* value, and beyond the limit exactly the first limit records are stored
\* and BAD is set.
C5_Original == AttrStreamStored(attr_stream)

\* C5 as amended: the same, for streams of well-formed ATTR records with
\* pairwise distinct names.
C5_AttrStreamStored ==
    WellFormedDistinct(attr_stream) => AttrStreamStored(attr_stream)

\* Three well-formed ATTR records with distinct names arrived, one more
\* than the limit: the first two are the mapping.
C5_Witness ==
    /\ WellFormedDistinct(attr_stream)
    /\ Len(attr_stream) = var_qattr_count_limit + 1
    /\ used(attr) = var_qattr_count_limit
    /\ rec.type = REC_TYPE_ATTR

LastCall(c) == c[Len(c)]

\* C6: when an ORCP record is immediately followed by a RCPT record while
\* the sender is set, the recipient rewriter is invoked with
\* state->orig_rcpt equal to the ORCP payload, the ORCP record it writes to
\* the sink carries that payload, and orig_rcpt is null when the call
\* returns.
C6_OrcpBoundToRcpt ==
    [][(/\ ByEnvelope /\ rec.type = REC_TYPE_ORCP
        /\ EnvelopeStep /\ rec'.type = REC_TYPE_RCPT
        /\ sender # NULL)
       =>
       (/\ Len(calls') = Len(calls) + 1
        /\ LastCall(calls').fn = "cleanup_addr_recipient"
        /\ LastCall(calls').orig_rcpt = rec.buf
        /\ Len(sink') = Len(sink) + 2
        /\ sink'[Len(sink) + 1].type = REC_TYPE_ORCP
        /\ sink'[Len(sink) + 1].data = rec.buf
        /\ sink'[Len(sink) + 2].type = REC_TYPE_RCPT
        /\ orig_rcpt' = NULL)]_vars

\* FROM, ORCP X, RCPT b: the rewriter saw X, not b.
C6_Witness ==
    /\ nrec = 3 /\ ByEnvelope /\ rec.type = REC_TYPE_RCPT
    /\ entry.sender # NULL /\ entry.orig_rcpt = <<"X">>
    /\ Len(calls) = 2
    /\ LastCall(calls).orig_rcpt = <<"X">>
    /\ LastCall(calls).orig_rcpt # rec.buf
    /\ sink[Len(sink) - 1].data = <<"X">>
    /\ orig_rcpt = NULL

OutOfOrder == "out-of-order original recipient record"

\* The label pending before the step is gone after it: orig_rcpt is null,
\* or holds the payload of the ORCP record the step handled.
LabelDropped ==
    \/ orig_rcpt' = NULL
    \/ rec'.type = REC_TYPE_ORCP /\ orig_rcpt' = rec'.buf

\* C7 as claimed: whenever an ORCP record is followed by a record that is
\* neither RCPT nor DONE (MESG, FLGS and records of a non-envelope type
\* included) the out-of-order warning is recorded and the pending label is
\* dropped.
C7_Original ==
    [][(/\ ByEnvelope /\ rec.type = REC_TYPE_ORCP
        /\ EnvelopeStep
        /\ rec'.type \notin {REC_TYPE_RCPT, REC_TYPE_DONE})
       =>
       (/\ Len(warnings') > Len(warnings)
        /\ warnings'[Len(warnings) + 1] = OutOfOrder
        /\ LabelDropped)]_vars

\* C7 as amended: whenever an ORCP record is followed by a record of an
\* envelope type other than RCPT, DONE, FLGS and MESG, the out-of-order
\* warning is recorded and the pending label is dropped; a DONE record
\* drops it without that warning; a MESG or FLGS record or a record of a
\* non-envelope type leaves it pending; and a RCPT record that arrives with
\* no label pending (the sender set) has the rewriter use its own payload
\* as the original recipient.
C7_OrphanOrcpDropped ==
    [][/\ (/\ ByEnvelope /\ rec.type = REC_TYPE_ORCP
           /\ EnvelopeStep
           /\ rec'.type \in REC_TYPE_ENVELOPE
                 \ {REC_TYPE_RCPT, REC_TYPE_DONE, REC_TYPE_FLGS,
                    REC_TYPE_MESG})
          =>
          (/\ Len(warnings') > Len(warnings)
           /\ warnings'[Len(warnings) + 1] = OutOfOrder
           /\ LabelDropped)
       /\ (/\ ByEnvelope /\ rec.type = REC_TYPE_ORCP
           /\ EnvelopeStep
           /\ rec'.type = REC_TYPE_DONE)
          =>
          (warnings' = warnings /\ orig_rcpt' = NULL)
       /\ (/\ ByEnvelope /\ rec.type = REC_TYPE_ORCP
           /\ EnvelopeStep
           /\ \/ rec'.type \in {REC_TYPE_FLGS, REC_TYPE_MESG}
              \/ rec'.type \notin REC_TYPE_ENVELOPE)
          =>
          (orig_rcpt' = orig_rcpt /\ OutOfOrder \notin
               {warnings'[i] : i \in (Len(warnings) + 1)..Len(warnings')})
       /\ (/\ EnvelopeStep /\ rec'.type = REC_TYPE_RCPT
           /\ sender # NULL /\ orig_rcpt = NULL)
          =>
          (/\ Len(calls') = Len(calls) + 1
           /\ LastCall(calls').orig_rcpt = rec'.buf
           /\ sink'[Len(sink) + 1].type = REC_TYPE_ORCP
           /\ sink'[Len(sink) + 1].data = rec'.buf)]_vars

\* FROM, ORCP X, TIME, RCPT b: the orphan was warned about, TIME reached the
\* sink, and the rewriter saw b as the original recipient.
C7_Witness ==
    /\ nrec = 4 /\ ByEnvelope /\ rec.type = REC_TYPE_RCPT
    /\ warnings = <<OutOfOrder>>
    /\ entry.orig_rcpt = NULL
    /\ sink[3].type = REC_TYPE_TIME
    /\ LastCall(calls).orig_rcpt = rec.buf
    /\ sink[4].type = REC_TYPE_ORCP /\ sink[4].data = rec.buf

\* A TIME record was passed through to the sink w.sink.
TimeReceived(w) ==
    \E i \in 1..Len(w.sink) :
        w.sink[i].type = REC_TYPE_TIME /\ w.sink[i].by = "cleanup_out"

\* C8 as claimed: a MESG record sets BAD when the sender or the time is
\* unset, and adds no error bit when a FROM record was accepted and a TIME
\* record was received before it.
C8_Original ==
    (ByEnvelope /\ rec.type = REC_TYPE_MESG) =>
        /\ (entry.sender = NULL \/ entry.time = 0) => HasBad(errs)
        /\ (entry.sender # NULL /\ TimeReceived(entry)) => errs = entry.errs

\* C8 as amended: a MESG record sets BAD when the sender is unset or the
\* time is unset (zero), and adds no error bit when a FROM record was
\* accepted and state->time is non-zero, that is, when the latest TIME
\* record read as a non-zero number.
C8_MesgNeedsSenderAndTime ==
    (ByEnvelope /\ rec.type = REC_TYPE_MESG) =>
        /\ (entry.sender = NULL \/ entry.time = 0) => HasBad(errs)
        /\ (entry.sender # NULL /\ entry.time # 0) => errs = entry.errs

\* FROM and TIME 2, then MESG: no error, and the content handler installed.
C8_Witness ==
    /\ ByEnvelope /\ rec.type = REC_TYPE_MESG
    /\ entry.sender # NULL /\ entry.time = 2 /\ TimeReceived(entry)
    /\ errs = {}
    /\ action = "cleanup_message"

\* C9: warn_time is never negative; a WARN record with a negative value
\* sets BAD and is not stored as warn_time; no WARN record with a negative
\* time is written to the sink.
C9_WarnTimeNonNegative ==
    /\ warn_time >= 0
    /\ (ByEnvelope /\ rec.type = REC_TYPE_WARN /\ atol(rec.buf) < 0) =>
          /\ HasBad(errs)
          /\ warn_time = entry.warn_time
    /\ \A i \in 1..Len(sink) :
          sink[i].type = REC_TYPE_WARN => atol(sink[i].data) >= 0

\* C10: a record of a type outside the envelope set (and not FLGS or MESG)
\* handled by the envelope handler sets BAD, is not written to the sink and
\* changes no other field of the state.
C10_UnexpectedType ==
    (/\ ByEnvelope
     /\ rec.type \notin REC_TYPE_ENVELOPE
     /\ rec.type \notin {REC_TYPE_FLGS, REC_TYPE_MESG})
    =>
    /\ HasBad(errs)
    /\ sink = entry.sink
    /\ [Cur EXCEPT !.errs = {}, !.warnings = <<>>]
         = [entry EXCEPT !.errs = {}, !.warnings = <<>>]
    /\ errs = entry.errs \cup {CLEANUP_STAT_BAD}

\* A content record arrived in the envelope with an original recipient
\* pending and no error so far.
C10_Witness ==
    /\ ByEnvelope /\ rec.type = REC_TYPE_NORM
    /\ entry.errs = {} /\ errs = {CLEANUP_STAT_BAD}
    /\ entry.orig_rcpt # NULL /\ entry.sender # NULL
    /\ Len(sink) >= 2


\* C11: the error set only grows: what cleanup_envelope writes before the
\* handler runs keeps it, and the handler's result holds every flag that
\* was set on entry.
C11_ErrsOnlyGrows ==
    [][errs \subseteq entry'.errs /\ entry'.errs \subseteq errs']_vars

\* A recipient record was rejected when an earlier record had already set
\* the error flag.
C11_Witness ==
    /\ ByEnvelope /\ HasBad(entry.errs)
    /\ rec.type = REC_TYPE_RCPT /\ entry.sender = NULL
    /\ HasBad(errs)

\* The sender is set and not empty.
SenderNonEmpty(w) == w.sender # NULL /\ w.sender # <<>>

\* The indices of the sink records of a type.
SinkOf(o, type) == {i \in 1..Len(o) : o[i].type = type}

\* C12: a VERP record is forwarded unchanged iff the sender is set and not
\* empty and the payload is two legal delimiters; otherwise the error flag
\* is set and the sink gets no VERP record.
C12_VerpForwarding ==
    (ByEnvelope /\ rec.type = REC_TYPE_VERP) =>
        IF SenderNonEmpty(entry) /\ verp_delims_ok(rec.buf)
        THEN /\ sink = Append(entry.sink,
                     [type |-> REC_TYPE_VERP, data |-> rec.buf,
                      by |-> "cleanup_out"])
             /\ errs = entry.errs
        ELSE /\ HasBad(errs)
             /\ sink = entry.sink

\* Legal delimiters arrived after an empty sender address was accepted.
C12_Witness ==
    /\ ByEnvelope /\ rec.type = REC_TYPE_VERP
    /\ entry.sender = <<>> /\ verp_delims_ok(rec.buf)
    /\ ~HasBad(entry.errs) /\ HasBad(errs)

\* The boundary record arrived with the sender and the arrival time set.
MesgAccepted ==
    /\ ByEnvelope /\ rec.type = REC_TYPE_MESG
    /\ entry.sender # NULL /\ entry.time # 0

\* C13: at an accepted MESG, a missing warn time becomes time + delay when
\* the delay is positive, and one WARN record carrying the warn time is
\* written exactly when the warn time is then set; an input WARN record is
\* not forwarded, so the sink holds at most one WARN record, written last
\* at the boundary.
C13_WarnTimeSynthesis ==
    /\ MesgAccepted =>
          /\ warn_time = IF entry.warn_time = 0 /\ var_delay_warn_time > 0
                         THEN entry.time + var_delay_warn_time
                         ELSE entry.warn_time
          /\ IF warn_time # 0
             THEN /\ Len(sink) = Len(entry.sink) + 1
                  /\ SubSeq(sink, 1, Len(entry.sink)) = entry.sink
                  /\ sink[Len(sink)].type = REC_TYPE_WARN
                  /\ atol(sink[Len(sink)].data) = warn_time
             ELSE sink = entry.sink
    /\ (ByEnvelope /\ rec.type = REC_TYPE_WARN) => sink = entry.sink
    /\ Cardinality(SinkOf(sink, REC_TYPE_WARN)) <= 1
    /\ SinkOf(sink, REC_TYPE_WARN) # {} =>
          /\ action = "cleanup_message"
          /\ SinkOf(sink, REC_TYPE_WARN) = {Len(sink)}

\* The boundary arrived with no warn time received and a positive delay.
C13_Witness ==
    /\ MesgAccepted
    /\ entry.warn_time = 0 /\ var_delay_warn_time > 0
    /\ warn_time = entry.time + var_delay_warn_time
    /\ sink[Len(sink)].type = REC_TYPE_WARN

(***************************************************************************)
(* The envelope of one delivery, fed in any order with the arrival order   *)
(* recorded.                                                               *)
(***************************************************************************)
MaxOrderRecs == 6

\* The records of the happy path, and a recipient that virtual expansion
\* fans out.
OrderRecords ==
    { Rec(REC_TYPE_TIME, <<"2">>), Rec(REC_TYPE_FROM, <<"a">>),
      Rec(REC_TYPE_ORCP, <<"X">>), Rec(REC_TYPE_RCPT, <<"b">>),
      Rec(REC_TYPE_RCPT, <<"l">>), Rec(REC_TYPE_ATTR, <<"a", "=", "1">>),
      Rec(REC_TYPE_MESG, <<>>) }

\* The caller stops after n records and records r as the latest arrival.
Arrives(r, n) ==
    nrec < n /\ inputs' = Append(inputs, r) /\ UNCHANGED others

NextOrder ==
    \/ \E r \in OrderRecords :
           Arrives(r, MaxOrderRecs) /\ cleanup_envelope(r)
    \/ \E r \in OrderRecords :
           Arrives(r, MaxOrderRecs) /\ cleanup_envelope_process(r)
    \/ \E r \in ContentRecords :
           Arrives(r, MaxOrderRecs) /\ cleanup_message(r)

SpecOrder == Init /\ [][NextOrder]_vars

IsPrefix(s, t) == Len(s) <= Len(t) /\ SubSeq(t, 1, Len(s)) = s

\* What the latest handler call appended to the sink.
Appended == SubSeq(sink, Len(entry.sink) + 1, Len(sink))

\* The happy path and the sink records it must leave after the size slot.
HappyPath ==
    << Rec(REC_TYPE_TIME, <<"2">>), Rec(REC_TYPE_FROM, <<"a">>),
       Rec(REC_TYPE_ORCP, <<"X">>), Rec(REC_TYPE_RCPT, <<"b">>),
       Rec(REC_TYPE_ATTR, <<"a", "=", "1">>), Rec(REC_TYPE_MESG, <<>>) >>

HappyTail ==
    << Rec(REC_TYPE_TIME, <<"2">>), Rec(REC_TYPE_FROM, <<"a", "@", "m">>),
       Rec(REC_TYPE_ORCP, <<"X">>), Rec(REC_TYPE_RCPT, <<"b", "@", "m">>),
       Rec(REC_TYPE_ATTR, <<"a", "=", "1">>) >>

\* C14: the sink keeps arrival order: each handler call only appends to
\* what earlier records wrote; an expanded recipient writes its (ORCP,
\* RCPT) pairs contiguously in expansion order; the size slot is first and
\* the synthesized WARN record last; TIME, FROM, ORCP, RCPT, ATTR, MESG
\* with a positive delay leave exactly the size slot, TIME, FROM, ORCP,
\* RCPT, ATTR, WARN(time + delay) and no error.
C14_SinkOrder ==
    /\ nrec > 0 => IsPrefix(entry.sink, sink) /\ SynthSize(sink[1])
    /\ (ByEnvelope /\ rec.type = REC_TYPE_RCPT /\ ~HasBad(errs)) =>
          LET to == virtual_expand(canon_addr(rec.buf))
          IN  /\ Len(Appended) = 2 * Len(to)
              /\ \A i \in 1..Len(to) :
                    /\ Appended[2 * i - 1].type = REC_TYPE_ORCP
                    /\ Appended[2 * i - 1].data = Appended[1].data
                    /\ Appended[2 * i].type = REC_TYPE_RCPT
                    /\ Appended[2 * i].data = to[i]
    /\ \A i \in 1..Len(sink) :
          (sink[i].type = REC_TYPE_WARN /\ sink[i].by = "cleanup_out_format")
             => i = Len(sink)
    /\ inputs = HappyPath =>
          /\ errs = {}
          /\ Len(sink) = 7
          /\ SynthSize(sink[1])
          /\ \A i \in 1..5 :
                Rec(sink[i + 1].type, sink[i + 1].data) = HappyTail[i]
          /\ sink[7].type = REC_TYPE_WARN
          /\ atol(sink[7].data) = 2 + var_delay_warn_time

\* The happy path was fed, with a positive delay.
C14_Witness ==
    /\ inputs = HappyPath /\ var_delay_warn_time > 0
    /\ action = "cleanup_message" /\ Len(sink) = 7

(***************************************************************************)
(* Replay: the records of the sink fed back as the envelope of a new       *)
(* message, under the same configuration.                                  *)
(***************************************************************************)
\* One record handed to state->action.
Deliver(w, type, buf) ==
    IF w.action = "cleanup_envelope"
    THEN envelope_process(envelope_begin(w), type, buf)
    ELSE IF w.action = "cleanup_envelope_process"
         THEN envelope_process(w, type, buf)
         ELSE w

RECURSIVE Feed(_, _)
Feed(w, recs) ==
    IF recs = <<>> THEN w
    ELSE Feed(Deliver(w, Head(recs).type, Head(recs).data), Tail(recs))

Replay == Feed(InitState, sink)

\* C15 as stated: after an envelope processed without error, replaying the
\* sink gives no error and the same time, warn time, sender, full name,
\* flags and attributes.
C15_Original ==
    errs = {} =>
        /\ Replay.errs = {}
        /\ Replay.time = time
        /\ Replay.warn_time = warn_time
        /\ Replay.sender = sender
        /\ Replay.fullname = fullname
        /\ Replay.flags = flags
        /\ Replay.attr = attr

\* C15: after an envelope processed without error, replaying the sink
\* gives no error and the same time, sender and attributes, and the same
\* warn time once the boundary was passed.
C15_ReplayIdempotence ==
    errs = {} =>
        /\ Replay.errs = {}
        /\ Replay.time = time
        /\ Replay.sender = sender
        /\ Replay.attr = attr
        /\ action = "cleanup_message" => Replay.warn_time = warn_time

\* A complete envelope with an attribute passed the boundary without
\* error and left a warn time.
C15_Witness ==
    /\ errs = {} /\ action = "cleanup_message"
    /\ used(attr) = 1 /\ warn_time # 0 /\ sender # NULL
    /\ Replay.attr = attr /\ Replay.warn_time = warn_time

(***************************************************************************)
(* A caller that invokes cleanup_envelope directly on a state it was       *)
(* already invoked on, instead of going through state->action.             *)
(***************************************************************************)
MisuseRecords ==
    { Rec(REC_TYPE_TIME, <<"2">>), Rec(REC_TYPE_FROM, <<"a">>),
      Rec(REC_TYPE_RCPT, <<"b">>), Rec(REC_TYPE_MESG, <<>>) }

\* cleanup_envelope has no test of its own: it writes the size record,
\* installs the handler and hands the record to it, whatever the state.
cleanup_envelope_again(r) ==
    /\ action # "cleanup_envelope"
    /\ LET w0 == envelope_begin(Cur)
       IN  /\ entry' = w0
           /\ Install(envelope_process(w0, r.type, r.buf))
    /\ rec' = r
    /\ attr_stream' = AttrSeen(r)
    /\ nrec' = nrec + 1
    /\ UNCHANGED var_delay_warn_time

NextMisuse ==
    \/ \E r \in MisuseRecords : Upto(MaxRecs) /\ cleanup_envelope(r)
    \/ \E r \in MisuseRecords :
           Upto(MaxRecs) /\ cleanup_envelope_process(r)
    \/ \E r \in ContentRecords : Upto(MaxRecs) /\ cleanup_message(r)
    \/ \E r \in MisuseRecords : Upto(MaxRecs) /\ cleanup_envelope_again(r)

SpecMisuse == Init /\ [][NextMisuse]_vars

\* C16: begin takes effect once per message: a second invocation on the
\* same state aborts, so the sink never holds a second size-slot record
\* and the second call's record is not processed.
C16_SecondBeginAborts ==
    Cardinality({i \in 1..Len(sink) : SynthSize(sink[i])}) <= 1

(***************************************************************************)
(* TLS client-start properties: tls_proxy_client_start_print and the       *)
(* matching reader.  An attribute stream is a sequence of (name, value)    *)
(* pairs; a value is text.                                                 *)
(***************************************************************************)
MaxArgv == 3

\* The match patterns a bundle may carry.
ArgvChoices ==
    UNION {[1..n -> {<<"a">>, <<"b">>, <<"c">>}] : n \in 0..MaxArgv}

\* TLS_CLIENT_START_PROPS
ClientStartProps ==
    [timeout : {30}, tls_level : {2},
     nexthop : {NULL, <<>>, <<"n">>}, host : {NULL, <<"h">>},
     namaddr : {NULL, <<"i">>}, serverid : {NULL, <<"s">>},
     helo : {NULL, <<"e">>}, protocols : {NULL, <<"p">>},
     cipher_grade : {NULL, <<"g">>}, cipher_exclusions : {NULL, <<"x">>},
     matchargv : ArgvChoices, mdalg : {NULL, <<"d">>}]

\* #define STRING_OR_EMPTY(s) ((s) ? (s) : "")
STRING_OR_EMPTY(s) == IF s = NULL THEN <<>> ELSE s

\* SEND_ATTR_INT, SEND_ATTR_STR: an integer is written as decimal text.
SEND_ATTR_INT(name, val) == [name |-> name, value |-> Decimal(val)]

SEND_ATTR_STR(name, val) == [name |-> name, value |-> val]

\* argv_attr_print: the number of strings, then each string in order.
argv_attr_print(argv) ==
    <<SEND_ATTR_INT("argv_size", Len(argv))>>
    \o [i \in 1..Len(argv) |-> SEND_ATTR_STR("argv_value", argv[i])]

\* client_start_print that leaves an absent string out of the stream.
client_start_print_omit_null(props) ==
    LET str(name, val) ==
            IF val = NULL THEN <<>> ELSE <<SEND_ATTR_STR(name, val)>>
    IN  << SEND_ATTR_INT("timeout", props.timeout),
           SEND_ATTR_INT("tls_level", props.tls_level) >>
        \o str("nexthop", props.nexthop) \o str("host", props.host)
        \o str("namaddr", props.namaddr) \o str("serverid", props.serverid)
        \o str("helo", props.helo) \o str("protocols", props.protocols)
        \o str("cipher_grade", props.cipher_grade)
        \o str("cipher_exclusions", props.cipher_exclusions)
        \o argv_attr_print(props.matchargv)
        \o str("mdalg", props.mdalg)

\* tls_proxy_client_start_print: the attributes handed to print_fn, in the
\* order of the call.
client_start_print(props) ==
    << SEND_ATTR_INT("timeout", props.timeout),
       SEND_ATTR_INT("tls_level", props.tls_level),
       SEND_ATTR_STR("nexthop", STRING_OR_EMPTY(props.nexthop)),
       SEND_ATTR_STR("host", STRING_OR_EMPTY(props.host)),
       SEND_ATTR_STR("namaddr", STRING_OR_EMPTY(props.namaddr)),
       SEND_ATTR_STR("serverid", STRING_OR_EMPTY(props.serverid)),
       SEND_ATTR_STR("helo", STRING_OR_EMPTY(props.helo)),
       SEND_ATTR_STR("protocols", STRING_OR_EMPTY(props.protocols)),
       SEND_ATTR_STR("cipher_grade", STRING_OR_EMPTY(props.cipher_grade)),
       SEND_ATTR_STR("cipher_exclusions",
                     STRING_OR_EMPTY(props.cipher_exclusions)) >>
    \o argv_attr_print(props.matchargv)
    \o << SEND_ATTR_STR("mdalg", STRING_OR_EMPTY(props.mdalg)) >>

\* The reader's view of the stream: attribute i has this name; its value
\* is decimal text.
HasAttr(stream, i, name) == i <= Len(stream) /\ stream[i].name = name

IsDecimal(t) ==
    LET d == IF t # <<>> /\ Head(t) = "-" THEN Tail(t) ELSE t
    IN  d # <<>> /\ \A i \in 1..Len(d) : d[i] \in Digits

HasInt(stream, i, name) ==
    HasAttr(stream, i, name) /\ IsDecimal(stream[i].value)

\* The eight string attributes between tls_level and the match patterns.
ClientStartStrings ==
    <<"nexthop", "host", "namaddr", "serverid", "helo", "protocols",
      "cipher_grade", "cipher_exclusions">>

\* The matching reader: it reads the schema's fields in order and stops at
\* the first attribute that is missing, misnamed or not a number; the
\* result is 1 when all twelve fields were read, else -1.  A field that
\* was not read is left zero or empty.
client_start_scan(stream) ==
    LET argc == IF HasInt(stream, 11, "argv_size")
                THEN atol(stream[11].value) ELSE 0
        ok(k) ==
            IF k = 1 THEN HasInt(stream, 1, "timeout")
            ELSE IF k = 2 THEN HasInt(stream, 2, "tls_level")
            ELSE IF k <= 10
                 THEN HasAttr(stream, k, ClientStartStrings[k - 2])
            ELSE IF k = 11
                 THEN /\ HasInt(stream, 11, "argv_size") /\ argc >= 0
                      /\ \A j \in 1..argc :
                             HasAttr(stream, 11 + j, "argv_value")
            ELSE HasAttr(stream, 12 + argc, "mdalg")
        count == Cardinality({k \in 1..12 : \A j \in 1..k : ok(j)})
        int(k) == IF k <= count THEN atol(stream[k].value) ELSE 0
        str(k) == IF k <= count THEN stream[k].value ELSE <<>>
    IN  [ret |-> IF count = 12 THEN 1 ELSE -1,
         props |->
            [timeout |-> int(1), tls_level |-> int(2),
             nexthop |-> str(3), host |-> str(4), namaddr |-> str(5),
             serverid |-> str(6), helo |-> str(7), protocols |-> str(8),
             cipher_grade |-> str(9), cipher_exclusions |-> str(10),
             matchargv |-> IF 11 <= count
                           THEN [j \in 1..argc |-> stream[11 + j].value]
                           ELSE <<>>,
             mdalg |-> IF 12 <= count
                       THEN stream[12 + argc].value ELSE <<>>]]

\* The sender holds a bundle; nothing was written yet.
InitClientStart ==
    /\ InitWith({DelayWarn})
    /\ client_start \in
           {[pc |-> "props", props |-> p, stream |-> <<>>,
             ret |-> 0, received |-> NotStarted] : p \in ClientStartProps}
    /\ server_init = NotStarted
    /\ sasl = NotStarted
    /\ flush = NotStarted

\* The sender marshals its bundle onto the stream.
tls_proxy_client_start_print ==
    /\ client_start.pc = "props"
    /\ client_start' =
           [client_start EXCEPT
               !.pc = "sent",
               !.stream = client_start_print(client_start.props)]
    /\ UNCHANGED <<envelope_vars, server_init, sasl, flush>>

\* The receiver unmarshals the stream.
tls_proxy_client_start_scan ==
    /\ client_start.pc = "sent"
    /\ LET got == client_start_scan(client_start.stream)
       IN  client_start' =
               [client_start EXCEPT
                   !.pc = "received",
                   !.ret = got.ret,
                   !.received = got.props]
    /\ UNCHANGED <<envelope_vars, server_init, sasl, flush>>

NextClientStart ==
    \/ tls_proxy_client_start_print
    \/ tls_proxy_client_start_scan

SpecClientStart == InitClientStart /\ [][NextClientStart]_vars

\* The names of a stream's attributes, in order.
NamesOf(stream) == [i \in 1..Len(stream) |-> stream[i].name]

\* C17: the marshaler writes the fields in the order timeout, tls_level,
\* nexthop, host, namaddr, serverid, helo, protocols, cipher_grade,
\* cipher_exclusions, the match pattern list, mdalg, a null string as the
\* empty string and none left out; the matching reader then succeeds and
\* returns a bundle equal to the original field by field, a null string
\* read back as empty and the match patterns in order.
C17_ClientStartRoundTrip ==
    LET p == client_start.props
        q == client_start.received
        n == Len(p.matchargv)
        text(f) == IF p[f] = NULL THEN <<>> ELSE p[f]
    IN  /\ client_start.pc \in {"sent", "received"} =>
              /\ NamesOf(client_start.stream) =
                     <<"timeout", "tls_level">> \o ClientStartStrings
                     \o <<"argv_size">> \o [j \in 1..n |-> "argv_value"]
                     \o <<"mdalg">>
              /\ \A i \in 1..Len(client_start.stream) :
                     client_start.stream[i].value # NULL
              /\ \A k \in 1..8 :
                     client_start.stream[k + 2].value =
                         text(ClientStartStrings[k])
        /\ client_start.pc = "received" =>
              /\ client_start.ret = 1
              /\ q.timeout = p.timeout /\ q.tls_level = p.tls_level
              /\ \A k \in 1..8 :
                     q[ClientStartStrings[k]] = text(ClientStartStrings[k])
              /\ q.mdalg = text("mdalg")
              /\ q.matchargv = p.matchargv

\* The bundle of the spec's scenario made the round trip.
C17_Witness ==
    /\ client_start.pc = "received"
    /\ client_start.props.timeout = 30
    /\ client_start.props.nexthop = NULL
    /\ client_start.props.matchargv = << <<"a">>, <<"b">>, <<"c">> >>
    /\ client_start.received.timeout = 30
    /\ client_start.received.nexthop = <<>>
    /\ client_start.received.matchargv = << <<"a">>, <<"b">>, <<"c">> >>

(***************************************************************************)
(* TLS server-init properties: tls_proxy_server_init_scan and              *)
(* tls_proxy_server_init_free.  The heap maps each allocated block to the  *)
(* number of times it was freed; a pointer is a block number, 0 is null.   *)
(***************************************************************************)
\* The fields in the order of the scan_fn call; three are integers.
ServerInitNames ==
    <<"log_param", "log_level", "verifydepth", "cache_type", "set_sessid",
      "cert_file", "key_file", "dcert_file", "dkey_file", "eccert_file",
      "eckey_file", "CAfile", "CApath", "protocols", "eecdh_grade",
      "dh1024_param_file", "dh512_param_file", "ask_ccert", "mdalg">>

ServerInitInts == {"verifydepth", "set_sessid", "ask_ccert"}

\* The string fields, in the order they are allocated, exported and freed.
ServerInitStrings ==
    SelectSeq(ServerInitNames, LAMBDA f : f \notin ServerInitInts)

\* The block vstring_alloc returns for the k-th string field; block 1 is
\* the bundle itself.
StringBlock(f) ==
    1 + CHOOSE k \in 1..Len(ServerInitStrings) : ServerInitStrings[k] = f

\* scan_fn: the number of leading fields it read from the stream, and its
\* result: that number when it stopped at an attribute of another name,
\* -1 when the input ended early or an integer was malformed.
ServerInitRead(stream, k) ==
    IF ServerInitNames[k] \in ServerInitInts
    THEN HasInt(stream, k, ServerInitNames[k])
    ELSE HasAttr(stream, k, ServerInitNames[k])

ServerInitCount(stream) ==
    Cardinality({k \in 1..Len(ServerInitNames) :
                    \A j \in 1..k : ServerInitRead(stream, j)})

scan_fn(stream) ==
    LET n == ServerInitCount(stream)
    IN  IF n = Len(ServerInitNames) THEN n
        ELSE IF HasAttr(stream, n + 1, ServerInitNames[n + 1])
                \/ Len(stream) <= n
             THEN -1
             ELSE n

\* What the scan leaves in the bundle: a field that was read holds the
\* received value; a string that was not read is empty, an integer zero.
ServerInitValue(stream, f, read) ==
    LET k == CHOOSE i \in 1..Len(ServerInitNames) : ServerInitNames[i] = f
    IN  IF f \in ServerInitInts
        THEN IF k <= read THEN atol(stream[k].value) ELSE 0
        ELSE IF k <= read THEN stream[k].value ELSE <<>>

\* server_init_scan that exports the strings only after a complete scan.
server_init_scan_export_on_success(stream) ==
    LET heap == [b \in 1..(1 + Len(ServerInitStrings)) |-> 0]
        ret == scan_fn(stream)
        read == ServerInitCount(stream)
        props == [f \in {ServerInitNames[i] : i \in 1..Len(ServerInitNames)}
                    |-> IF f \in ServerInitInts
                        THEN ServerInitValue(stream, f, read)
                        ELSE IF ret = 19 THEN StringBlock(f) ELSE 0]
    IN  [heap |-> heap, ptr |-> 1, props |-> props,
         text |-> [b \in 2..(1 + Len(ServerInitStrings)) |->
                      ServerInitValue(stream, ServerInitStrings[b - 1],
                                      read)],
         scan_ret |-> ret, ret |-> IF ret = 19 THEN 1 ELSE -1]

\* tls_proxy_server_init_scan: allocate the bundle and the sixteen string
\* buffers, clear the bundle, scan, export every buffer into its field,
\* publish the bundle through *ptr, and return 1 when scan_fn read 19
\* fields, else -1.
server_init_scan(stream) ==
    LET heap == [b \in 1..(1 + Len(ServerInitStrings)) |-> 0]
        ret == scan_fn(stream)
        read == ServerInitCount(stream)
        props == [f \in {ServerInitNames[i] : i \in 1..Len(ServerInitNames)}
                    |-> IF f \in ServerInitInts
                        THEN ServerInitValue(stream, f, read)
                        ELSE StringBlock(f)]
    IN  [heap |-> heap, ptr |-> 1, props |-> props,
         text |-> [b \in 2..(1 + Len(ServerInitStrings)) |->
                      ServerInitValue(stream, ServerInitStrings[b - 1],
                                      read)],
         scan_ret |-> ret, ret |-> IF ret = 19 THEN 1 ELSE -1]

\* myfree: one more release of the block; a null pointer is a fault.
RECURSIVE myfree_each(_, _)
myfree_each(st, ptrs) ==
    IF ptrs = <<>> THEN st
    ELSE myfree_each(
             IF Head(ptrs) = 0 THEN [st EXCEPT !.fault = TRUE]
             ELSE [st EXCEPT !.heap[Head(ptrs)] = @ + 1],
             Tail(ptrs))

\* tls_proxy_server_init_free: free each string field, then the bundle.
server_init_free(st) ==
    myfree_each(st,
        [k \in 1..Len(ServerInitStrings) |-> st.props[ServerInitStrings[k]]]
        \o <<st.ptr>>)

\* The streams a peer may send: a complete stream, one cut short, one with
\* an attribute of another name, one with a malformed integer.
ServerInitComplete(v, n) ==
    [k \in 1..Len(ServerInitNames) |->
        [name |-> ServerInitNames[k],
         value |-> IF ServerInitNames[k] \in ServerInitInts
                   THEN Decimal(n) ELSE v]]

ServerInitStreams ==
    LET full == {ServerInitComplete(<<>>, 0), ServerInitComplete(<<"v">>, 9)}
        at == 1..Len(ServerInitNames)
    IN  full
        \cup {SubSeq(t, 1, k - 1) : t \in full, k \in at}
        \cup {[t EXCEPT ![k].name = "other"] : t \in full, k \in at}
        \cup {[t EXCEPT ![k].value = <<"z">>] : t \in full, k \in at}

InitServerInit ==
    /\ InitWith({DelayWarn})
    /\ server_init \in
           {[pc |-> "stream", stream |-> t, heap |-> <<>>, ptr |-> 0,
             props |-> <<>>, text |-> <<>>, scan_ret |-> 0, ret |-> 0,
             fault |-> FALSE] : t \in ServerInitStreams}
    /\ client_start = NotStarted
    /\ sasl = NotStarted
    /\ flush = NotStarted

\* The receiver is called on the stream.
tls_proxy_server_init_scan ==
    /\ server_init.pc = "stream"
    /\ LET got == server_init_scan(server_init.stream)
       IN  server_init' =
               [server_init EXCEPT
                   !.pc = "scanned", !.heap = got.heap, !.ptr = got.ptr,
                   !.props = got.props, !.text = got.text,
                   !.scan_ret = got.scan_ret, !.ret = got.ret]
    /\ UNCHANGED <<envelope_vars, client_start, sasl, flush>>

\* The caller releases the bundle it was given through *ptr.
tls_proxy_server_init_free ==
    /\ server_init.pc = "scanned"
    /\ server_init.ptr # 0
    /\ server_init' = [server_init_free(server_init) EXCEPT !.pc = "freed"]
    /\ UNCHANGED <<envelope_vars, client_start, sasl, flush>>

NextServerInit ==
    \/ tls_proxy_server_init_scan
    \/ tls_proxy_server_init_free

SpecServerInit == InitServerInit /\ [][NextServerInit]_vars

\* The pointers held by the string fields of the visible bundle.
StringPointers ==
    {server_init.props[ServerInitStrings[k]] :
        k \in 1..Len(ServerInitStrings)}

\* The stream is the complete schema: every name in place, every integer
\* well formed.
WellFormed19(stream) ==
    /\ Len(stream) = 19
    /\ \A k \in 1..19 :
          /\ stream[k].name = ServerInitNames[k]
          /\ ServerInitNames[k] \in ServerInitInts
                => IsDecimal(stream[k].value)

\* C18: the receiver returns 1 iff exactly 19 fields were read, else -1;
\* the bundle it publishes through *ptr has, on success and on error, 16
\* string fields that each own a distinct live block, with nothing else
\* allocated; after one call of the free routine every block, the bundle
\* included, was released exactly once.
C18_ServerInitScan ==
    server_init.pc \in {"scanned", "freed"} =>
        /\ server_init.ret = 1 <=> server_init.scan_ret = 19
        /\ server_init.ret = 1 <=> WellFormed19(server_init.stream)
        /\ server_init.ret \in {1, -1}
        /\ server_init.ptr # 0
        /\ 0 \notin StringPointers
        /\ Cardinality(StringPointers) = 16
        /\ server_init.ptr \notin StringPointers
        /\ DOMAIN server_init.heap = StringPointers \cup {server_init.ptr}
        /\ server_init.pc = "scanned" =>
              \A b \in DOMAIN server_init.heap : server_init.heap[b] = 0
        /\ server_init.pc = "freed" =>
              /\ ~server_init.fault
              /\ \A b \in DOMAIN server_init.heap : server_init.heap[b] = 1

\* A stream that stopped part-way was scanned, and the bundle was freed.
C18_Witness ==
    /\ server_init.pc = "freed"
    /\ server_init.ret = -1
    /\ Len(server_init.stream) \in 1..18

(***************************************************************************)
(* SASL glue of the SMTP server: smtpd_sasl_connect,                       *)
(* smtpd_sasl_authenticate and smtpd_sasl_logout on one session.  The      *)
(* SASL library's verdicts and the client's responses are inputs.          *)
(***************************************************************************)
MaxAuth == 2

MaxChallenges == 2

\* The SMTP replies smtpd_sasl_authenticate returns, each as one text.
REPLY_BAD_INIT == <<"501 Authentication failed: malformed initial response">>

REPLY_ABORTED == <<"501 Authentication aborted">>

REPLY_BAD_RESPONSE == <<"501 Error: malformed authentication response">>

REPLY_FAILED == <<"535 Error: authentication failed">>

SaslReplies ==
    {REPLY_BAD_INIT, REPLY_ABORTED, REPLY_BAD_RESPONSE, REPLY_FAILED}

\* Results of sasl_server_start and sasl_server_step.
SaslResults == {"SASL_OK", "SASL_CONTINUE", "SASL_BADAUTH"}

Base64Chars == {"Y", "Q", "="}

\* sasl_decode64 succeeds on groups of four base64 characters.
sasl_decode64_ok(t) ==
    Len(t) % 4 = 0 /\ \A i \in 1..Len(t) : t[i] \in Base64Chars

\* What the client may send: the give-up line, a base64 response, a
\* response that does not decode; with AUTH, no initial response at all.
ClientResponses == {<<"*">>, <<"Y", "Q", "=", "=">>, <<"!">>}

InitResponses == {NULL, <<"Y", "Q", "=", "=">>, <<"!">>}

SaslMethods == {<<"P">>, <<"L">>}

\* The user name sasl_getprop reports, or a null pointer (a library botch).
SaslUsers == {<<"u">>, NULL}

\* The function returns to its caller with this result.
sasl_return(st, result) ==
    [st EXCEPT !.pc = "idle", !.returned = result, !.logged_out = FALSE]

\* sasl_finish that records the user before it tests the result.
sasl_finish_sets_first(st, result, user) ==
    IF user = NULL
    THEN [st EXCEPT !.pc = "panic"]
    ELSE LET st1 == [st EXCEPT !.sasl_username = user,
                               !.sasl_method = st.method]
         IN  IF result # "SASL_OK"
             THEN sasl_return(st1, REPLY_FAILED)
             ELSE sasl_return(st1, NULL)

\* After the dialog: a result other than SASL_OK is a 535 reply; else the
\* user name and the method are recorded and the result is null.
sasl_finish(st, result, user) ==
    IF result # "SASL_OK"
    THEN sasl_return(st, REPLY_FAILED)
    ELSE IF user = NULL
         THEN [st EXCEPT !.pc = "panic"]
         ELSE sasl_return([st EXCEPT !.sasl_username = user,
                                     !.sasl_method = st.method], NULL)

\* An entry of the trace: a call the function made, with the result the
\* library gave or the line the client sent.
Called(call, with) == [call |-> call, with |-> with]

\* The head of the loop: on SASL_CONTINUE send the challenge and wait for
\* the client's response in smtpd_chat_query.
sasl_loop(st, result, user) ==
    IF result = "SASL_CONTINUE"
    THEN [st EXCEPT !.pc = "query",
                    !.trace = Append(@, Called("334", <<>>)),
                    !.challenges = @ + 1]
    ELSE sasl_finish(st, result, user)

\* sasl_authenticate that decodes the initial response before its sanity
\* check.
sasl_authenticate_late_check(st, sasl_method, init_response, result, user) ==
    LET st0 == [st EXCEPT !.trace = <<>>, !.challenges = 0,
                          !.method = sasl_method, !.nauth = @ + 1]
    IN  IF init_response # NULL /\ ~sasl_decode64_ok(init_response)
        THEN sasl_return(st0, REPLY_BAD_INIT)
        ELSE IF st.sasl_username # NULL \/ st.sasl_method # NULL
             THEN [st0 EXCEPT !.pc = "panic"]
             ELSE sasl_loop([st0 EXCEPT !.trace =
                                <<Called("sasl_server_start", <<result>>)>>],
                            result, user)

\* smtpd_sasl_authenticate up to the first wait: the sanity check, the
\* initial response, sasl_server_start.
sasl_authenticate(st, sasl_method, init_response, result, user) ==
    LET st0 == [st EXCEPT !.trace = <<>>, !.challenges = 0,
                          !.method = sasl_method, !.nauth = @ + 1]
    IN  IF st.sasl_username # NULL \/ st.sasl_method # NULL
        THEN [st0 EXCEPT !.pc = "panic"]
        ELSE IF init_response # NULL /\ ~sasl_decode64_ok(init_response)
             THEN sasl_return(st0, REPLY_BAD_INIT)
             ELSE sasl_loop([st0 EXCEPT !.trace =
                                <<Called("sasl_server_start", <<result>>)>>],
                            result, user)

\* sasl_response that calls sasl_server_step before it looks at the line.
sasl_response_step_first(st, response, result, user) ==
    LET st1 == [st EXCEPT !.trace = @ \o
                    <<Called("smtpd_chat_query", response),
                      Called("sasl_server_step", <<result>>)>>]
    IN  IF response = <<"*">>
        THEN sasl_return(st1, REPLY_ABORTED)
        ELSE IF ~sasl_decode64_ok(response)
             THEN sasl_return(st1, REPLY_BAD_RESPONSE)
             ELSE sasl_loop(st1, result, user)

\* smtpd_sasl_authenticate from the client's response on: give up, decode,
\* sasl_server_step, and back to the head of the loop.
sasl_response(st, response, result, user) ==
    LET st1 == [st EXCEPT !.trace =
                    Append(@, Called("smtpd_chat_query", response))]
    IN  IF response = <<"*">>
        THEN sasl_return(st1, REPLY_ABORTED)
        ELSE IF ~sasl_decode64_ok(response)
             THEN sasl_return(st1, REPLY_BAD_RESPONSE)
             ELSE sasl_loop([st1 EXCEPT !.trace =
                               Append(@, Called("sasl_server_step",
                                                <<result>>))],
                            result, user)

\* sasl_logout that releases the user name only.
sasl_logout_username_only(st) ==
    [st EXCEPT !.sasl_username = NULL, !.logged_out = TRUE]

\* smtpd_sasl_logout
sasl_logout(st) ==
    [st EXCEPT !.sasl_username = NULL, !.sasl_method = NULL,
               !.logged_out = TRUE]

\* A session structure before smtpd_sasl_connect: the two members hold
\* whatever the storage held.
InitSasl ==
    /\ InitWith({DelayWarn})
    /\ sasl \in
           {[pc |-> "new", sasl_username |-> u, sasl_method |-> m,
             method |-> NULL, returned |-> <<>>, logged_out |-> FALSE,
             trace |-> <<>>, challenges |-> 0, nauth |-> 0] :
                u \in {NULL, <<"?">>}, m \in {NULL, <<"?">>}}
    /\ client_start = NotStarted
    /\ server_init = NotStarted
    /\ flush = NotStarted

\* Once at the start of the connection; a library failure is fatal.
smtpd_sasl_connect(ok) ==
    /\ sasl.pc = "new"
    /\ sasl' = [sasl EXCEPT !.sasl_username = NULL, !.sasl_method = NULL,
                            !.pc = IF ok THEN "idle" ELSE "fatal"]
    /\ UNCHANGED <<envelope_vars, client_start, server_init, flush>>

\* The library keeps a dialog to MaxChallenges challenges.
SaslMay(result) ==
    result = "SASL_CONTINUE" => sasl.challenges < MaxChallenges

smtpd_sasl_authenticate(sasl_method, init_response, result, user) ==
    /\ sasl.pc = "idle"
    /\ sasl.nauth < MaxAuth
    /\ result = "SASL_CONTINUE" => 0 < MaxChallenges
    /\ sasl' = sasl_authenticate(sasl, sasl_method, init_response,
                                 result, user)
    /\ UNCHANGED <<envelope_vars, client_start, server_init, flush>>

\* The client's response arrives while smtpd_sasl_authenticate waits.
smtpd_chat_query(response, result, user) ==
    /\ sasl.pc = "query"
    /\ SaslMay(result)
    /\ sasl' = sasl_response(sasl, response, result, user)
    /\ UNCHANGED <<envelope_vars, client_start, server_init, flush>>

smtpd_sasl_logout ==
    /\ sasl.pc = "idle"
    /\ sasl' = sasl_logout(sasl)
    /\ UNCHANGED <<envelope_vars, client_start, server_init, flush>>

NextSasl ==
    \/ \E ok \in BOOLEAN : smtpd_sasl_connect(ok)
    \/ \E m \in SaslMethods, i \in InitResponses, r \in SaslResults,
          u \in SaslUsers : smtpd_sasl_authenticate(m, i, r, u)
    \/ \E c \in ClientResponses, r \in SaslResults, u \in SaslUsers :
          smtpd_chat_query(c, r, u)
    \/ smtpd_sasl_logout

SpecSasl == InitSasl /\ [][NextSasl]_vars

\* C19: once connected, sasl_username and sasl_method are both null or
\* both set; they are set exactly when the most recent authenticate that
\* returned gave the null pointer and no logout followed it; after an
\* authenticate that returned a 501 or 535 reply both are null.
C19_SaslSessionState ==
    sasl.pc \in {"idle", "query", "panic", "fatal"} =>
        /\ sasl.sasl_username = NULL <=> sasl.sasl_method = NULL
        /\ sasl.sasl_username # NULL <=>
              (sasl.returned = NULL /\ ~sasl.logged_out)
        /\ sasl.returned \in SaslReplies =>
              sasl.sasl_username = NULL /\ sasl.sasl_method = NULL

\* After a success and a logout, a second authenticate succeeded through a
\* challenge.
C19_Witness ==
    /\ sasl.pc = "idle" /\ sasl.nauth = 2
    /\ sasl.returned = NULL /\ ~sasl.logged_out
    /\ sasl.sasl_username = <<"u">> /\ sasl.sasl_method # NULL
    /\ sasl.challenges > 0

(***************************************************************************)
(* Fast flush service client: mail_flush_site and mail_flush_append.       *)
(* Whether the service accepts the connection, and what it replies, are    *)
(* inputs.                                                                 *)
(***************************************************************************)
MaxFlush == 2

FLUSH_STAT_FAIL == -1

FLUSH_REQ_SEND == <<"FLUSH_REQ_SEND">>

FLUSH_REQ_ADD == <<"FLUSH_REQ_ADD">>

FlushSites == {<<"s">>, <<"t">>}

FlushQueueIds == {<<"A">>, <<"B">>}

\* The service's reply: a status, text that is no integer, or nothing.
FlushReplies == {<<"0">>, <<"4">>, <<"-", "1">>, <<"x">>, <<>>}

\* mail_flush_clnt that returns on a bad reply without closing the stream.
mail_flush_clnt_early_return(st, connected, request, reply) ==
    LET st0 == [st EXCEPT !.ncalls = @ + 1, !.connected = connected,
                          !.reply = reply, !.sent = <<>>, !.reads = 0,
                          !.closes = 0]
    IN  IF ~connected THEN [st0 EXCEPT !.status = FLUSH_STAT_FAIL]
        ELSE IF ~IsDecimal(reply)
             THEN [st0 EXCEPT !.sent = <<request>>, !.reads = 1,
                              !.status = FLUSH_STAT_FAIL]
             ELSE [st0 EXCEPT !.sent = <<request>>, !.reads = 1,
                              !.closes = 1, !.status = atol(reply)]

\* mail_flush_clnt: connect, or fail; send the request, scan one integer,
\* close the stream, return the status.
mail_flush_clnt(st, connected, request, reply) ==
    LET st0 == [st EXCEPT !.ncalls = @ + 1, !.connected = connected,
                          !.reply = reply, !.sent = <<>>, !.reads = 0,
                          !.closes = 0]
    IN  IF ~connected THEN [st0 EXCEPT !.status = FLUSH_STAT_FAIL]
        ELSE [st0 EXCEPT !.sent = <<request>>, !.reads = 1, !.closes = 1,
                         !.status = IF IsDecimal(reply) THEN atol(reply)
                                    ELSE FLUSH_STAT_FAIL]

\* The result of the call joins the results of the earlier calls.
FlushDone(st, op) ==
    [st EXCEPT !.op = op, !.results = Append(@, st.status)]

InitFlush ==
    /\ InitWith({DelayWarn})
    /\ flush = [ncalls |-> 0, op |-> <<>>, connected |-> FALSE,
                reply |-> <<>>, sent |-> <<>>, reads |-> 0, closes |-> 0,
                status |-> 0, results |-> <<>>]
    /\ client_start = NotStarted
    /\ server_init = NotStarted
    /\ sasl = NotStarted

\* "%s %s" with FLUSH_REQ_SEND and the site.
mail_flush_site(site, connected, reply) ==
    /\ flush.ncalls < MaxFlush
    /\ flush' = FlushDone(mail_flush_clnt(flush, connected,
                              FLUSH_REQ_SEND \o <<" ">> \o site, reply),
                          <<"mail_flush_site", site>>)
    /\ UNCHANGED <<envelope_vars, client_start, server_init, sasl>>

\* "%s %s %s" with FLUSH_REQ_ADD, the site and the queue id.
mail_flush_append(site, queue_id, connected, reply) ==
    /\ flush.ncalls < MaxFlush
    /\ flush' = FlushDone(mail_flush_clnt(flush, connected,
                              FLUSH_REQ_ADD \o <<" ">> \o site \o <<" ">>
                              \o queue_id, reply),
                          <<"mail_flush_append", site, queue_id>>)
    /\ UNCHANGED <<envelope_vars, client_start, server_init, sasl>>

NextFlush ==
    \/ \E site \in FlushSites, c \in BOOLEAN, reply \in FlushReplies :
          mail_flush_site(site, c, reply)
    \/ \E site \in FlushSites, id \in FlushQueueIds, c \in BOOLEAN,
          reply \in FlushReplies : mail_flush_append(site, id, c, reply)

SpecFlush == InitFlush /\ [][NextFlush]_vars

\* C20: a call whose connection fails returns FAIL and sends nothing; any
\* other call sends exactly one request (the request code, the site and,
\* for append, the queue id), reads one reply, closes the stream exactly
\* once, and returns the server's integer, or FAIL when the reply is not
\* one integer.
C20_FlushExchange ==
    flush.ncalls > 0 =>
        IF ~flush.connected
        THEN /\ flush.status = FLUSH_STAT_FAIL
             /\ flush.sent = <<>> /\ flush.reads = 0 /\ flush.closes = 0
        ELSE /\ Len(flush.sent) = 1 /\ flush.reads = 1 /\ flush.closes = 1
             /\ flush.sent[1] =
                   IF flush.op[1] = "mail_flush_site"
                   THEN <<"FLUSH_REQ_SEND", " ">> \o flush.op[2]
                   ELSE <<"FLUSH_REQ_ADD", " ">> \o flush.op[2]
                        \o <<" ">> \o flush.op[3]
             /\ flush.status =
                   IF flush.reply \in {<<"0">>, <<"4">>, <<"-", "1">>}
                   THEN atol(flush.reply) ELSE FLUSH_STAT_FAIL

\* The service accepted the connection and replied with text that is no
\* integer.
C20_Witness ==
    /\ flush.ncalls > 0 /\ flush.connected
    /\ flush.reply = <<"x">>
    /\ flush.status = FLUSH_STAT_FAIL /\ flush.closes = 1

(***************************************************************************)
(* The boundary, the extra flags, the arrival time and the attributes.     *)
(***************************************************************************)
\* C21: a MESG record handled by the envelope handler installs the
\* content handler, whatever the envelope state; once the content handler
\* is installed no later record is handled by the envelope handler.
C21_FirstMesgMovesToContent ==
    /\ (ByEnvelope /\ rec.type = REC_TYPE_MESG) => action = "cleanup_message"
    /\ (nrec > 0 /\ entry.action = "cleanup_message") =>
          action = "cleanup_message"

\* The bits of a FLGS payload inside and outside the allowed mask.
AllowedBits(buf) == BitsOf(atol(buf)) \cap CLEANUP_FLAG_MASK_EXTRA

RejectedBits(buf) == BitsOf(atol(buf)) \ CLEANUP_FLAG_MASK_EXTRA

\* C22: a FLGS record leaves errs and the sink alone; bits outside the
\* allowed mask draw a warning only, and the allowed bits of the same
\* record are ORed into the flags; the flags hold allowed bits only.
C22_FlgsAllowedBitsMerged ==
    /\ flags \subseteq CLEANUP_FLAG_MASK_EXTRA
    /\ (ByEnvelope /\ rec.type = REC_TYPE_FLGS) =>
          /\ errs = entry.errs
          /\ sink = entry.sink
          /\ RejectedBits(rec.buf) # {} =>
                Len(warnings) = Len(entry.warnings) + 1
          /\ flags = entry.flags \cup AllowedBits(rec.buf)

\* C23: the time is set by the first TIME record only: a TIME record is
\* passed through to the sink and sets no error bit, and when an earlier
\* TIME record was received it leaves the time unchanged.
C23_TimeSetOnce ==
    (ByEnvelope /\ rec.type = REC_TYPE_TIME) =>
        /\ errs = entry.errs
        /\ Len(sink) = Len(entry.sink) + 1
        /\ sink[Len(sink)].type = REC_TYPE_TIME
        /\ sink[Len(sink)].data = rec.buf
        /\ TimeReceived(entry) => time = entry.time

\* C26: an ATTR record that finds the mapping at the count limit is not
\* written to the sink; one that finds it below the limit is written to
\* the sink whether or not its payload is name=value, and a malformed
\* payload then sets BAD and leaves the mapping unchanged.
C26_AttrForwardedBeforeValidation ==
    (ByEnvelope /\ rec.type = REC_TYPE_ATTR) =>
        IF used(entry.attr) >= var_qattr_count_limit
        THEN sink = entry.sink
        ELSE /\ sink = Append(entry.sink,
                     [type |-> REC_TYPE_ATTR, data |-> rec.buf,
                      by |-> "cleanup_out"])
             /\ ~split_ok(rec.buf) => HasBad(errs) /\ attr = entry.attr

\* A malformed ATTR record arrived below the limit, with no error so far.
C26_Witness ==
    /\ ByEnvelope /\ rec.type = REC_TYPE_ATTR
    /\ used(entry.attr) < var_qattr_count_limit
    /\ ~split_ok(rec.buf) /\ ~HasBad(entry.errs)
    /\ sink[Len(sink)].data = rec.buf /\ HasBad(errs)

(***************************************************************************)
(* smtpd_sasl_authenticate: the sanity check and the order of the dialog.  *)
(***************************************************************************)
\* A step in which smtpd_sasl_authenticate is invoked.
AuthenticateInvoked == sasl.pc = "idle" /\ sasl'.nauth = sasl.nauth + 1

\* C24: smtpd_sasl_authenticate invoked while sasl_username or sasl_method
\* is set panics before any library call and before any reply: nothing was
\* called and nothing is returned. Invoked with both null (after connect
\* or after logout) it is not stopped by the sanity check.
C24_NoReauthentication ==
    [][AuthenticateInvoked =>
          IF sasl.sasl_username # NULL \/ sasl.sasl_method # NULL
          THEN /\ sasl'.pc = "panic"
               /\ sasl'.trace = <<>>
               /\ sasl'.returned = sasl.returned
          ELSE /\ sasl'.pc = "panic" => sasl'.trace # <<>>
               /\ sasl'.pc = "idle" =>
                     sasl'.returned \in SaslReplies \cup {NULL}]_vars

\* The second authenticate of a session, with the user name of the first
\* still set, panicked with nothing called.
C24_Witness ==
    /\ sasl.pc = "panic" /\ sasl.nauth = 2
    /\ sasl.sasl_username # NULL /\ sasl.sasl_method # NULL
    /\ sasl.trace = <<>> /\ sasl.returned = NULL

LibraryCalls == {"sasl_server_start", "sasl_server_step"}

Continues(e) == e.call \in LibraryCalls /\ e.with = <<"SASL_CONTINUE">>

=============================================================================
